---- MODULE Spec2Model ----
(* Model of datatools/pipe.py: Pipe.process (sequential and dask-pooled    *)
(* execution of _process_file over the rows of a batch descriptor), the    *)
(* flat result table it stores, and the reshape step Pipe._indexify.       *)
EXTENDS Integers, Sequences, FiniteSets, TLC

(* ---------------------------------------------------------------- bounds *)
MaxRows == 3        \* longest batch descriptor explored
MaxJobs == 2        \* largest n_jobs a caller passes
CPU_COUNT == 3      \* cores of the machine: dask's default pool size
MaxRemoved == 1     \* data files the environment may delete

(* ------------------------------------------------------ program constants *)
PadLen == 150       \* signal.filtfilt(..., padlen=150)

(* An optional value (None, an unbound local) is <<>> or <<value>>.         *)
NONE == <<>>
Some(x) == <<x>>
UNBOUND == <<>>
NoFile == ""
NaN == 0 - 1        \* a cell no record has a value for

(* --------------------------------------------------------- python dicts  *)
(* A dict is a sequence of <<key, value>> pairs in insertion order.        *)
Keys(d) == [j \in 1..Len(d) |-> d[j][1]]

HasKey(d, k) == \E j \in 1..Len(d) : d[j][1] = k

Get(d, k) == IF HasKey(d, k)
             THEN d[CHOOSE j \in 1..Len(d) : d[j][1] = k][2]
             ELSE NaN

Put(d, k, v) == IF HasKey(d, k)
                THEN [j \in 1..Len(d) |-> IF d[j][1] = k THEN <<k, v>> ELSE d[j]]
                ELSE Append(d, <<k, v>>)

RECURSIVE Update(_, _)
Update(d, e) == IF e = <<>> THEN d
                ELSE Update(Put(d, Head(e)[1], Head(e)[2]), Tail(e))

(* ------------------------------------------------------ batch descriptor *)
Files == {"a.csv", "b.csv", "c.csv", "short.csv"}

(* Samples per trace of each file: short.csv is shorter than the pad.      *)
NSamples(f) == IF f = "short.csv" THEN 100 ELSE 1000

FileNo(f) == CASE f = "a.csv" -> 1 [] f = "b.csv" -> 2 [] f = "c.csv" -> 3
               [] f = "short.csv" -> 4

(* Candidate rows: pipe 1 / pos 2 occurs twice, with different files.      *)
RowPool == {
    [pipe |-> 1, pos |-> 2, sample |-> 7, file_name |-> "a.csv"],
    [pipe |-> 1, pos |-> 1, sample |-> 8, file_name |-> "b.csv"],
    [pipe |-> 1, pos |-> 2, sample |-> 9, file_name |-> "c.csv"],
    [pipe |-> 2, pos |-> 1, sample |-> 7, file_name |-> "short.csv"] }

Layouts == {
    <<"pipe", "pos", "file_name">>,
    <<"file_name", "pos", "pipe">>,
    <<"pipe", "pos", "sample", "file_name">>,
    <<"pos", "file_name">> }

Injective(s) == \A a, b \in 1..Len(s) : a # b => s[a] # s[b]

Batches == UNION { { s \in [1..n -> RowPool] : Injective(s) } : n \in 0..MaxRows }

Range(s) == { s[j] : j \in 1..Len(s) }

(* The rows of a descriptor with the given columns.                        *)
Project(rows, cols) == [r \in 1..Len(rows) |-> [c \in Range(cols) |-> rows[r][c]]]

(* ------------------------------------------------------------ the state  *)
VARIABLES
    df_log,       \* self.df_log: [columns, rows]
    n_jobs,       \* self.n_jobs
    present,      \* data files that exist on disk
    _df,          \* self._df
    pc,           \* position of the caller in Pipe.process
    i,            \* next row of df_log.iterrows()
    key_dict,     \* local key_dict of process (UNBOUND before the first row)
    future_list,  \* local future_list
    task,         \* per row: state of its unit of work
    results,      \* per row: what its unit of work produced
    order,        \* rows in the order their units of work completed
    ret,          \* value process returned
    exc,          \* exception that reached the caller of process
    df_before,    \* self._df when process was entered
    indexed,      \* value of the last read of df_indexed
    indexed2      \* _indexify applied to that value

vars == <<df_log, n_jobs, present, _df, pc, i, key_dict, future_list, task,
          results, order, ret, exc, df_before, indexed, indexed2>>

NRows == Len(df_log.rows)

Quiescent == pc \in {"idle", "returned", "raised"}

(* --------------------------------------------------------- _process_file *)
DerivedFields == <<"prim_sec_amp", "prim_sec_phi", "prim_rec_amp", "prim_rec_phi",
                   "sec_rec_amp", "sec_rec_phi", "sec_harm_db", "rec_harm_db">>

(* The 8 values fitted from one file; the numerics are opaque, each value  *)
(* is a number that identifies the file and the field it was computed for. *)
Val(file_name, j) == FileNo(file_name) * 10 + j

Rec(file_name) == [j \in 1..Len(DerivedFields) |->
                      <<DerivedFields[j], Val(file_name, j)>>]

(* The CSV reader fails on a missing file (its error is taken to name the  *)
(* path); filtfilt raises a ValueError that names only padlen.             *)
ReadError(file_name) == [type |-> "ReadError", file |-> file_name]

FilterError(file_name) == [type |-> "ValueError", file |-> NoFile]

Fails(file_name) == file_name \notin present \/ NSamples(file_name) <= PadLen

Raised(file_name) == IF file_name \notin present THEN ReadError(file_name)
                     ELSE FilterError(file_name)

ProcessFile(file_name, kd) == Update(kd, Rec(file_name))

(* ---------------------------------------------------------------- process *)
KeyNames == SelectSeq(df_log.columns, LAMBDA c : c # "file_name")

KeyDict(row) == [j \in 1..Len(KeyNames) |-> <<KeyNames[j], row[KeyNames[j]]>>]

(* A frame: index level names and one index entry per row, column level   *)
(* names and one label (a tuple of strings) per column, and the cells.     *)
DataFrame(rec_list, columns) ==
    [names |-> <<>>,
     colnames |-> <<>>,
     columns |-> [j \in 1..Len(columns) |-> <<columns[j]>>],
     index |-> [r \in 1..Len(rec_list) |-> r - 1],
     data |-> [r \in 1..Len(rec_list) |->
                 [j \in 1..Len(columns) |-> Get(rec_list[r], columns[j])]]]

Columns(kd) == Keys(kd) \o DerivedFields

Init ==
    /\ \E cols \in Layouts, rows \in Batches :
          df_log = [columns |-> cols, rows |-> Project(rows, cols)]
    /\ n_jobs \in 1..MaxJobs
    /\ present = Files
    /\ _df = NONE
    /\ pc = "idle"
    /\ i = 1
    /\ key_dict = UNBOUND
    /\ future_list = <<>>
    /\ task = <<>>
    /\ results = <<>>
    /\ order = <<>>
    /\ ret = NONE
    /\ exc = NONE
    /\ df_before = NONE
    /\ indexed = NONE
    /\ indexed2 = NONE

(* Entry of process: chooses the mode, empties future_list.                *)
Process ==
    /\ Quiescent
    /\ pc' = "loop"
    /\ i' = 1
    /\ key_dict' = UNBOUND
    /\ future_list' = <<>>
    /\ task' = [r \in 1..NRows |-> "none"]
    /\ results' = [r \in 1..NRows |-> NONE]
    /\ order' = <<>>
    /\ ret' = NONE
    /\ exc' = NONE
    /\ df_before' = _df
    /\ indexed' = NONE
    /\ indexed2' = NONE
    /\ UNCHANGED <<df_log, n_jobs, present, _df>>

(* One iteration of the loop with fake_delayed: _process_file runs at once *)
(* on key_dict itself (out = key_dict), or its exception leaves process.   *)
LoopSequential ==
    /\ pc = "loop" /\ n_jobs <= 1 /\ i <= NRows
    /\ LET row == df_log.rows[i]
           file_name == row.file_name
           out == ProcessFile(file_name, KeyDict(row))
       IN IF Fails(file_name)
          THEN /\ pc' = "raised"
               /\ exc' = Some(Raised(file_name))
               /\ key_dict' = Some(KeyDict(row))
               /\ task' = [task EXCEPT ![i] = "failed"]
               /\ order' = Append(order, i)
               /\ UNCHANGED <<future_list, results, i>>
          ELSE /\ key_dict' = Some(out)
               /\ future_list' = Append(future_list, out)
               /\ results' = [results EXCEPT ![i] = Some(out)]
               /\ task' = [task EXCEPT ![i] = "done"]
               /\ order' = Append(order, i)
               /\ i' = i + 1
               /\ UNCHANGED <<pc, exc>>
    /\ UNCHANGED <<df_log, n_jobs, present, _df, ret, df_before, indexed, indexed2>>

(* One iteration of the loop with dask.delayed: the call is recorded with  *)
(* a copy of its arguments and nothing runs yet.                           *)
LoopDelayed ==
    /\ pc = "loop" /\ n_jobs > 1 /\ i <= NRows
    /\ LET row == df_log.rows[i]
       IN /\ key_dict' = Some(KeyDict(row))
          /\ future_list' = Append(future_list,
                                   [file_name |-> row.file_name, key_dict |-> KeyDict(row)])
    /\ task' = [task EXCEPT ![i] = "pending"]
    /\ i' = i + 1
    /\ UNCHANGED <<df_log, n_jobs, present, _df, pc, results, order, ret, exc,
                   df_before, indexed, indexed2>>

(* The loop is exhausted: compute_func is called.                          *)
LoopEnd ==
    /\ pc = "loop" /\ i > NRows
    /\ pc' = "compute"
    /\ UNCHANGED <<df_log, n_jobs, present, _df, i, key_dict, future_list, task,
                   results, order, ret, exc, df_before, indexed, indexed2>>

Running == { r \in 1..Len(task) : task[r] = "running" }

(* dask hands a pending unit of work to a free worker of its pool; the     *)
(* pool has CPU_COUNT workers because compute is given no num_workers.     *)
PoolSize == CPU_COUNT

WorkerStart(r) ==
    /\ pc = "compute" /\ n_jobs > 1
    /\ task[r] = "pending"
    /\ Cardinality(Running) < PoolSize
    /\ task' = [task EXCEPT ![r] = "running"]
    /\ UNCHANGED <<df_log, n_jobs, present, _df, pc, i, key_dict, future_list,
                   results, order, ret, exc, df_before, indexed, indexed2>>

(* A worker finishes _process_file for row r, with a record or a failure.  *)
(* Workers are separate processes: one that is running when compute has  *)
(* already raised may still finish.                                        *)
WorkerFinish(r) ==
    /\ task[r] = "running"
    /\ LET f == future_list[r]
       IN IF Fails(f.file_name)
          THEN /\ task' = [task EXCEPT ![r] = "failed"]
               /\ results' = [results EXCEPT ![r] = Some(Raised(f.file_name))]
          ELSE /\ task' = [task EXCEPT ![r] = "done"]
               /\ results' = [results EXCEPT ![r] = Some(ProcessFile(f.file_name, f.key_dict))]
    /\ order' = Append(order, r)
    /\ UNCHANGED <<df_log, n_jobs, present, _df, pc, i, key_dict, future_list,
                   ret, exc, df_before, indexed, indexed2>>

(* As ComputeRaise, but keeping the records that were ready as self._df.   *)
ComputeRaiseStoring(r) ==
    /\ pc = "compute" /\ n_jobs > 1
    /\ task[r] = "failed"
    /\ pc' = "raised"
    /\ exc' = results[r]
    /\ _df' = Some(DataFrame(
                 SelectSeq([q \in 1..Len(results) |-> IF task[q] = "done" THEN results[q][1] ELSE <<>>],
                           LAMBDA d : d # <<>>),
                 KeyNames \o DerivedFields))
    /\ UNCHANGED <<df_log, n_jobs, present, i, key_dict, future_list, task,
                   results, order, ret, df_before, indexed, indexed2>>

(* dask's scheduler sees a failed unit of work and re-raises its exception *)
(* from compute; units still pending or running are abandoned.             *)
ComputeRaise(r) ==
    /\ pc = "compute" /\ n_jobs > 1
    /\ task[r] = "failed"
    /\ pc' = "raised"
    /\ exc' = results[r]
    /\ UNCHANGED <<df_log, n_jobs, present, _df, i, key_dict, future_list, task,
                   results, order, ret, df_before, indexed, indexed2>>

(* rec_list as compute returns it: one result per argument, in argument    *)
(* order (fake_compute returns future_list itself).                        *)
(* The completion order ord plays no part in it.                           *)
GatherByCompletion(res, ord) == [j \in 1..Len(ord) |-> res[ord[j]][1]]

Gather(res, ord) == [r \in 1..Len(res) |-> res[r][1]]

(* compute returned: build the frame from rec_list and key_dict, store it  *)
(* in self._df and return a copy. key_dict is unbound if no row was seen.  *)
BuildFrame ==
    /\ pc = "compute"
    /\ \A r \in 1..NRows : task[r] = "done"
    /\ IF key_dict = UNBOUND
       THEN /\ pc' = "raised"
            /\ exc' = Some([type |-> "UnboundLocalError", file |-> NoFile])
            /\ UNCHANGED <<_df, ret>>
       ELSE /\ pc' = "returned"
            /\ _df' = Some(DataFrame(Gather(results, order), Columns(key_dict[1])))
            /\ ret' = _df'
            /\ exc' = NONE
    /\ UNCHANGED <<df_log, n_jobs, present, i, key_dict, future_list, task,
                   results, order, df_before, indexed, indexed2>>

(* The environment deletes a data file between two calls.                  *)
RemoveFile(f) ==
    /\ Quiescent
    /\ f \in present
    /\ Cardinality(Files \ present) < MaxRemoved
    /\ present' = present \ {f}
    /\ UNCHANGED <<df_log, n_jobs, _df, pc, i, key_dict, future_list, task,
                   results, order, ret, exc, df_before, indexed, indexed2>>

(* --------------------------------------------------------------- reshape *)
(* Alphabetical rank of the strings used as column labels.                 *)
StrRank(x) == CASE x = "amplitude" -> 1 [] x = "db" -> 2 [] x = "phase" -> 3
                [] x = "primary" -> 4 [] x = "receiver" -> 5 [] x = "sec" -> 6
                [] x = "secondary" -> 7 [] OTHER -> 8

(* a sorts strictly before b; a and b are tuples of numbers of one length. *)
LexLess(a, b) == \E k \in 1..Len(a) :
                    /\ \A m \in 1..(k - 1) : a[m] = b[m]
                    /\ a[k] < b[k]

(* Stable sort: the permutation that puts keys in nondecreasing order.     *)
Insert(perm, p, keys) ==
    LET cnt == Cardinality({ q \in 1..Len(perm) : ~LexLess(keys[p], keys[perm[q]]) })
    IN SubSeq(perm, 1, cnt) \o <<p>> \o SubSeq(perm, cnt + 1, Len(perm))

RECURSIVE SortPerm(_, _)
SortPerm(keys, n) == IF n = 0 THEN <<>> ELSE Insert(SortPerm(keys, n - 1), n, keys)

LabelKey(label) == [k \in 1..Len(label) |-> StrRank(label[k])]

(* The three arrays of _indexify, read column by column.                   *)
Drivers == <<"primary", "primary", "primary", "primary", "sec", "sec", "primary", "primary">>

Detectors == <<"secondary", "secondary", "receiver", "receiver", "receiver", "receiver",
               "secondary", "secondary">>

Quantities == <<"amplitude", "phase", "amplitude", "phase", "amplitude", "phase", "db", "db">>

Labels == [j \in 1..Len(Drivers) |-> <<Drivers[j], Detectors[j], Quantities[j]>>]

(* 'pipe' in df.columns: a key names a column by its first level.          *)
HasColumn(df, k) == \E j \in 1..Len(df.columns) : df.columns[j][1] = k

ColumnPos(df, k) == CHOOSE j \in 1..Len(df.columns) :
                       /\ df.columns[j][1] = k
                       /\ \A m \in 1..(j - 1) : df.columns[m][1] # k

(* df.set_index(keys): the key columns become the index and leave the      *)
(* columns; uniqueness of the new index is not verified.                   *)
SetIndex(df, keys) ==
    LET kept == SelectSeq([j \in 1..Len(df.columns) |-> j],
                          LAMBDA j : df.columns[j][1] \notin Range(keys))
    IN [names |-> keys,
        colnames |-> df.colnames,
        columns |-> [j \in 1..Len(kept) |-> df.columns[kept[j]]],
        index |-> [r \in 1..Len(df.data) |->
                     [k \in 1..Len(keys) |-> df.data[r][ColumnPos(df, keys[k])]]],
        data |-> [r \in 1..Len(df.data) |->
                    [j \in 1..Len(kept) |-> df.data[r][kept[j]]]]]

(* df.sort_index(axis=1)                                                   *)
SortColumns(df) ==
    LET perm == SortPerm([j \in 1..Len(df.columns) |-> LabelKey(df.columns[j])],
                         Len(df.columns))
    IN [df EXCEPT !.columns = [j \in 1..Len(perm) |-> df.columns[perm[j]]],
                  !.data = [r \in 1..Len(df.data) |->
                              [j \in 1..Len(perm) |-> df.data[r][perm[j]]]]]

(* df.sort_index()                                                         *)
SortRowsSkipped(df) == df

SortRows(df) ==
    LET perm == SortPerm(df.index, Len(df.index))
    IN [df EXCEPT !.index = [r \in 1..Len(perm) |-> df.index[perm[r]]],
                  !.data = [r \in 1..Len(perm) |-> df.data[perm[r]]]]

Failure(type) == [error |-> type, df |-> <<>>]

Success(df) == [error |-> "", df |-> <<df>>]

Indexify(df) ==
    IF ~(HasColumn(df, "pipe") /\ HasColumn(df, "pos"))
    THEN Failure("KeyError")
    ELSE LET d1 == SetIndex(df, <<"pipe", "pos">>)
         IN IF Len(d1.columns) # Len(Labels)
            THEN Failure("ValueError")
            ELSE Success(SortRows(SortColumns(
                     [d1 EXCEPT !.columns = Labels,
                                !.colnames = <<"driver", "detector", "quantity">>])))

(* A read of the property df_indexed.                                      *)
DfIndexed ==
    /\ Quiescent
    /\ indexed = NONE
    /\ indexed' = IF _df = NONE THEN Some(Failure("AttributeError"))
                  ELSE Some(Indexify(_df[1]))
    /\ UNCHANGED <<df_log, n_jobs, present, _df, pc, i, key_dict, future_list, task,
                   results, order, ret, exc, df_before, indexed2>>

(* The caller hands the reshaped table to _indexify once more.             *)
Reindexify ==
    /\ Quiescent
    /\ indexed # NONE /\ indexed[1].df # <<>>
    /\ indexed2 = NONE
    /\ indexed2' = Some(Indexify(indexed[1].df[1]))
    /\ UNCHANGED <<df_log, n_jobs, present, _df, pc, i, key_dict, future_list, task,
                   results, order, ret, exc, df_before, indexed>>

Next ==
    \/ Process
    \/ LoopSequential
    \/ LoopDelayed
    \/ LoopEnd
    \/ \E r \in 1..MaxRows : r <= Len(task) /\ WorkerStart(r)
    \/ \E r \in 1..MaxRows : r <= Len(task) /\ WorkerFinish(r)
    \/ \E r \in 1..MaxRows : r <= Len(task) /\ ComputeRaise(r)
    \/ BuildFrame
    \/ \E f \in Files : RemoveFile(f)
    \/ DfIndexed
    \/ Reindexify

(* ---------------------------------------------------------------- claims *)
RowFile(r) == df_log.rows[r].file_name

FieldNo(name) == CHOOSE j \in 1..Len(DerivedFields) : DerivedFields[j] = name

(* The cell that row r of the descriptor gives for a column name.          *)
Expected(r, name) == IF name \in Range(KeyNames) THEN df_log.rows[r][name]
                     ELSE Val(RowFile(r), FieldNo(name))

CallEnded == pc \in {"returned", "raised"}

SomeFailed == \E r \in 1..Len(task) : task[r] = "failed"

(* C1: the r-th record of the table process returns holds the key fields   *)
(* of the r-th descriptor row and the values computed from its file, in    *)
(* both modes and for every completion order of the units of work.         *)
C1_RowOrderPreserved ==
    pc = "returned" =>
        LET t == ret[1]
        IN /\ Len(t.data) = NRows
           /\ \A r \in 1..NRows :
                 /\ t.index[r] = r - 1
                 /\ \A j \in 1..Len(t.columns) :
                       t.data[r][j] = Expected(r, t.columns[j][1])
           /\ \A n \in Range(KeyNames \o DerivedFields) :
                 \E j \in 1..Len(t.columns) : t.columns[j][1] = n

(* C1 witness: a pooled call returned although the first unit of work to   *)
(* complete was not the first row's.                                       *)
C1_Witness ==
    /\ pc = "returned" /\ n_jobs > 1 /\ NRows >= 2
    /\ order[1] # 1

(* C2 as stated: the returned table's columns are the key columns followed *)
(* by the 8 derived fields, each once.                                     *)
C2_ColumnList ==
    pc = "returned" =>
        ret[1].columns = [j \in 1..(Len(KeyNames) + Len(DerivedFields)) |->
                             <<(KeyNames \o DerivedFields)[j]>>]

(* The classification table of the design, in derived-field order.         *)
SpecLabels == <<
    <<"primary", "secondary", "amplitude">>, <<"primary", "secondary", "phase">>,
    <<"primary", "receiver", "amplitude">>,  <<"primary", "receiver", "phase">>,
    <<"secondary", "receiver", "amplitude">>, <<"secondary", "receiver", "phase">>,
    <<"primary", "secondary", "db">>,        <<"primary", "receiver", "db">> >>

Reshaped == indexed # NONE /\ indexed[1].df # <<>>

(* C3 as stated: in a reshaped table the column that holds derived field j *)
(* carries the j-th triple of the table, and the triples are distinct.     *)
C3_LabelTable ==
    (Reshaped /\ Len(indexed[1].df[1].data) >= 1) =>
        LET t == indexed[1].df[1]
        IN /\ \A c \in 1..Len(t.columns) :
                 t.columns[c] = SpecLabels[t.data[1][c] % 10]
           /\ \A c, d \in 1..Len(t.columns) : c # d => t.columns[c] # t.columns[d]

HasDuplicateKey(df) ==
    /\ HasColumn(df, "pipe") /\ HasColumn(df, "pos")
    /\ \E a, b \in 1..Len(df.data) :
          /\ a # b
          /\ df.data[a][ColumnPos(df, "pipe")] = df.data[b][ColumnPos(df, "pipe")]
          /\ df.data[a][ColumnPos(df, "pos")] = df.data[b][ColumnPos(df, "pos")]

(* C4 as stated: when two rows of the flat table share (pipe, pos), a read *)
(* of df_indexed fails instead of returning a table.                       *)
C4_DuplicateKeyFails ==
    (indexed # NONE /\ _df # NONE /\ HasDuplicateKey(_df[1])) =>
        indexed[1].df = <<>>

(* C5 as stated: the failure that leaves process after a file's analysis   *)
(* failed names the file of a failing row.                                 *)
C5_FailureNamesRow ==
    (pc = "raised" /\ SomeFailed) =>
        \E r \in 1..Len(task) : task[r] = "failed" /\ exc[1].file = RowFile(r)

(* C6 as stated: when process returns or raises, the analysis of every row *)
(* has run to completion or to failure.                                    *)
C6_AllRowsRun ==
    CallEnded => \A r \in 1..NRows : task[r] \in {"done", "failed"}

(* C7 as stated: in pooled mode at most n_jobs analyses run at a time.     *)
C7_AtMostNJobs ==
    n_jobs > 1 => Cardinality(Running) <= n_jobs

(* C8 as stated: _indexify applied to its own output succeeds and yields   *)
(* the same table, for a flat table with unique (pipe, pos) keys.          *)
C8_ReshapeTwice ==
    (Reshaped /\ indexed2 # NONE /\ ~HasDuplicateKey(_df[1])) =>
        indexed2 = indexed

(* C8 amended: the table _indexify returns has its row index and its       *)
(* column labels in nondecreasing lexicographic order, so sorting it again *)
(* changes nothing; _indexify itself rejects it with a KeyError because    *)
(* pipe and pos are no longer columns.                                     *)
C8_SortedOnce ==
    Reshaped =>
        LET t == indexed[1].df[1]
        IN /\ \A r \in 1..(Len(t.index) - 1) : ~LexLess(t.index[r + 1], t.index[r])
           /\ \A c \in 1..(Len(t.columns) - 1) :
                 ~LexLess(LabelKey(t.columns[c + 1]), LabelKey(t.columns[c]))
           /\ indexed2 # NONE => indexed2[1] = Failure("KeyError")

(* C8 witness: a flat table whose first two rows were out of key order was *)
(* reshaped, and the result was handed to _indexify again.                 *)
C8_Witness ==
    /\ Reshaped /\ indexed2 # NONE
    /\ Len(_df[1].data) >= 2
    /\ LET flat == SetIndex(_df[1], <<"pipe", "pos">>)
       IN LexLess(flat.index[2], flat.index[1])

(* C9: when the analysis of a file failed, the call raised, returned no    *)
(* table and left self._df as it was on entry; a call that returned had    *)
(* every analysis succeed.                                                 *)
C9_FailsWholeBatch ==
    /\ (CallEnded /\ SomeFailed) => (pc = "raised" /\ ret = NONE /\ _df = df_before)
    /\ pc = "returned" => \A r \in 1..NRows : task[r] = "done"

(* C9 witness: a call failed on a file after an earlier call had stored a  *)
(* table, which is still there.                                            *)
C9_Witness ==
    /\ pc = "raised" /\ SomeFailed
    /\ df_before # NONE /\ _df = df_before

(* C10 as stated: on a descriptor without rows process returns an empty    *)
(* table whose columns are the key columns and the derived fields.         *)
C10_EmptyBatch ==
    (CallEnded /\ NRows = 0) =>
        /\ pc = "returned"
        /\ ret # NONE
        /\ ret[1].data = <<>>

Spec == Init /\ [][Next]_vars
====
